---- MODULE Spec2Model ----
(***************************************************************************)
(* Session / profile synchronisation of the attendance application:        *)
(* the AuthProvider (hooks/useAuth variant), its mount-time session check, *)
(* the onAuthStateChange handler, fetchUserProfile and the three auth      *)
(* actions signUp, signIn, signOut, together with the remote tables they   *)
(* read and write.                                                         *)
(*                                                                         *)
(* Every await of a remote call is a suspension point: an async function   *)
(* is one action up to its first remote call and one action per remote     *)
(* call's return.  The code that follows an await of an already settled    *)
(* promise runs in the same microtask checkpoint, before any other remote  *)
(* result or event is handled, and belongs to the same action.             *)
(***************************************************************************)
EXTENDS Naturals, Sequences, FiniteSets, TLC

\* ---------------------------------------------------------------- bounds
\* auth events delivered to the handler plus auth actions invoked
MaxOps == 2

\* ---------------------------------------------------------------- values
\* JavaScript null and undefined (object-typed positions)
Null == [js |-> "null"]
Undefined == [js |-> "undefined"]
\* a JavaScript string held in a nullable position (error: string | null)
Str(s) == [str |-> s]

\* !!v
ToBoolean(v) == v \notin {Null, Undefined, Str("")}

Ids == {"U1", "U2"}
\* user_metadata.role of a session user; "undefined" is an absent claim
RoleClaims == {"faculty", "student", "parent", "admin", "undefined"}
\* session.user, reduced to the fields the provider reads: U1 with each
\* recognized role, U2 with a recognized, an unrecognized and an absent one
Users == {u \in [id : Ids, role : RoleClaims] :
            \/ u.id = "U1" /\ u.role \in {"faculty", "student", "parent"}
            \/ u.id = "U2" /\ u.role \in {"parent", "admin", "undefined"}}
\* ids the remote service issues to identities created by sign-up
NewIds == {"U2"}

TableNames == {"faculty", "students", "parents"}
SignUpRoles == {"faculty", "student", "parent"}
EventKinds == {"SIGNED_IN", "SIGNED_OUT", "TOKEN_REFRESHED"}

\* messages set by the provider itself
NoRoleMsg == Str("No role found in user profile")
InvalidRoleMsg == Str("Invalid user role")
NoProfileMsg == Str("No profile found. Please contact admin.")
\* err.message of the errors returned by the remote service
SessionErrMsg == Str("session error")
QueryErrMsg == Str("query failed")
SignUpErrMsg == Str("sign-up failed")
InsertErrMsg == Str("insert failed")
SignInErrMsg == Str("Invalid login credentials")
SignOutErrMsg == Str("sign-out failed")

\* ---------------------------------------------------------------- remote rows
\* a row already present in a role table when the provider mounts
SeedRow(t, id) ==
  CASE t = "students" -> [id |-> id, name |-> "Asha", full_name |-> "undefined",
                          email |-> "undefined", roll_no |-> "STD-A-01",
                          standard |-> "10", class |-> "A",
                          linked_student_roll |-> "undefined"]
    [] t = "parents"  -> [id |-> id, name |-> "Meera", full_name |-> "undefined",
                          email |-> "undefined", roll_no |-> "undefined",
                          standard |-> "undefined", class |-> "undefined",
                          linked_student_roll |-> "STD-A-01"]
    [] OTHER          -> [id |-> id, name |-> "undefined", full_name |-> "Ravi",
                          email |-> "ravi@school", roll_no |-> "undefined",
                          standard |-> "undefined", class |-> "undefined",
                          linked_student_roll |-> "undefined"]

\* insertData of signUp (created_at is never read back)
InsertData(id) ==
  [id |-> id, name |-> "New User", full_name |-> "New User",
   email |-> "new@school", roll_no |-> "undefined", standard |-> "undefined",
   class |-> "undefined", linked_student_roll |-> "undefined"]

VARIABLES
  user,        \* useState: session user or Null
  profile,     \* useState: UserProfile or Null
  loading,     \* useState: BOOLEAN
  error,       \* useState: Str(message) or Null
  mounted,     \* the effect's liveness flag
  subscribed,  \* the auth subscription is active
  tasks,       \* async invocations still in flight, in the order started
  settled,     \* the invocation that settled last (its promise's outcome)
  nOps,        \* handler invocations and auth actions invoked so far
  tables,      \* remote role tables: table name -> set of rows
  gate,        \* what ProtectedRoute rendered last
  dashboard    \* what DashboardRouter rendered last

vars == <<user, profile, loading, error, mounted, subscribed, tasks, settled,
          nOps, tables, gate, dashboard>>

\* ---------------------------------------------------------------- helpers
\* isAuthenticated computed from the user alone
isAuthenticated_userOnly == ToBoolean(user)

\* isAuthenticated: !!user && !!profile
isAuthenticated == ToBoolean(user) /\ ToBoolean(profile)

\* ProtectedRoute testing for the not-found message before isAuthenticated
ProtectedRoute_notFoundFirst ==
  IF loading THEN "spinner"
  ELSE IF ToBoolean(error) /\ ~ToBoolean(user) THEN "login"
  ELSE IF error = NoProfileMsg THEN "profile-not-found"
  ELSE IF ~isAuthenticated THEN "login"
  ELSE "children"

\* ProtectedRoute without its isAuthenticated test
ProtectedRoute_noAuthTest ==
  IF loading THEN "spinner"
  ELSE IF ToBoolean(error) /\ ~ToBoolean(user) THEN "login"
  ELSE IF error = NoProfileMsg THEN "profile-not-found"
  ELSE "children"

\* ProtectedRoute: what the gate renders for the current snapshot
ProtectedRoute ==
  IF loading THEN "spinner"
  ELSE IF ToBoolean(error) /\ ~ToBoolean(user) THEN "login"
  ELSE IF ~isAuthenticated THEN "login"
  ELSE IF error = NoProfileMsg THEN "profile-not-found"
  ELSE "children"

\* DashboardRouter with the default branch rendering nothing
DashboardRouter_defaultNull ==
  IF ~isAuthenticated \/ ~ToBoolean(profile) THEN "null"
  ELSE CASE profile.role = "faculty" -> "FacultyDashboard"
         [] profile.role = "student" -> "StudentDashboard"
         [] profile.role = "parent"  -> "ParentDashboard"
         [] OTHER                    -> "null"

\* DashboardRouter: what the router renders for the current snapshot
DashboardRouter ==
  IF ~isAuthenticated \/ ~ToBoolean(profile) THEN "null"
  ELSE CASE profile.role = "faculty" -> "FacultyDashboard"
         [] profile.role = "student" -> "StudentDashboard"
         [] profile.role = "parent"  -> "ParentDashboard"
         [] OTHER                    -> "Unknown Role"

\* the component tree has not rendered the component
Unmounted == "unmounted"

\* App: the tree re-rendered for the new snapshot; DashboardRouter is the
\* child of ProtectedRoute and renders only where the gate renders children
Rendered ==
  /\ gate' = ProtectedRoute'
  /\ dashboard' = IF ProtectedRoute' = "children" THEN DashboardRouter' ELSE Unmounted

\* the liveness test taken to fail always
Live_never == FALSE

\* the liveness test taken to hold always
Live_always == TRUE

\* `mounted` as the mount check and the event handler test it
Live == mounted

\* the SIGNED_OUT branch leaving error as it was
SignedOutState_keepsError == [user |-> Null, profile |-> Null, error |-> error]

\* what the SIGNED_OUT branch of the event handler writes
SignedOutState == [user |-> Null, profile |-> Null, error |-> Null]

\* the switch with the student and parent cases exchanged
TableFor_swapped(role) ==
  CASE role = "faculty" -> "faculty"
    [] role = "student" -> "parents"
    [] role = "parent"  -> "students"
    [] OTHER            -> ""

\* the switch on role in fetchUserProfile and signUp; "" is the default branch
TableFor(role) ==
  CASE role = "faculty" -> "faculty"
    [] role = "student" -> "students"
    [] role = "parent"  -> "parents"
    [] OTHER            -> ""

\* a || b taking a whatever it is
OrElse_first(a, b) == a

\* a || b on strings
OrElse(a, b) == IF a \notin {"undefined", "null", ""} THEN a ELSE b

\* the UserProfile built without the row's roll_no
UserProfileOf_noRollNo(data, role) ==
  [id |-> data.id, role |-> role, name |-> OrElse(data.name, data.full_name),
   email |-> data.email, roll_no |-> "undefined", standard |-> data.standard,
   class |-> data.class, linked_student_roll |-> data.linked_student_roll]

\* the UserProfile built from a row
UserProfileOf(data, role) ==
  [id |-> data.id, role |-> role, name |-> OrElse(data.name, data.full_name),
   email |-> data.email, roll_no |-> data.roll_no, standard |-> data.standard,
   class |-> data.class, linked_student_roll |-> data.linked_student_roll]

\* from(t).select('*').eq('id', id)
SelectEq(t, id) == {r \in tables[t] : r.id = id}

Call(op, t, id) == [op |-> op, table |-> t, id |-> id]

NewTask(kind, pc, au, calls) ==
  [kind |-> kind, pc |-> pc, au |-> au, calls |-> calls]

\* the record of a settled invocation: how its promise settled and with what
Settle(t, status, err) ==
  [kind |-> t.kind, calls |-> t.calls, status |-> status, err |-> err]

NoneSettled == [kind |-> "none", calls |-> <<>>, status |-> "none", err |-> Null]

\* tasks without its i-th element
Remove(i) == SubSeq(tasks, 1, i - 1) \o SubSeq(tasks, i + 1, Len(tasks))

\* the switch's default branch querying the faculty table
FetchBegin_defaultsToFaculty(au, errBefore) ==
  IF au.role \in {"undefined", "null", ""}
  THEN [pc |-> "done", calls |-> <<>>, error |-> NoRoleMsg]
  ELSE [pc |-> "query",
        calls |-> <<Call("select",
                         IF TableFor(au.role) = "" THEN "faculty" ELSE TableFor(au.role),
                         au.id)>>,
        error |-> errBefore]

\* fetchUserProfile up to its await: whether it has returned ("done") or
\* awaits its query ("query"), the calls issued and the value of error,
\* given its value before the call
FetchBegin(au, errBefore) ==
  IF au.role \in {"undefined", "null", ""}
  THEN [pc |-> "done", calls |-> <<>>, error |-> NoRoleMsg]
  ELSE IF TableFor(au.role) = ""
  THEN [pc |-> "done", calls |-> <<>>, error |-> InvalidRoleMsg]
  ELSE [pc |-> "query",
        calls |-> <<Call("select", TableFor(au.role), au.id)>>,
        error |-> errBefore]

\* the PGRST116 branch without its setProfile(null)
QueryOutcome_notFoundKeepsProfile(rows, role, fail) ==
  IF fail
  THEN [error |-> QueryErrMsg, profile |-> Null]
  ELSE IF rows = {}
  THEN [error |-> NoProfileMsg, profile |-> profile]
  ELSE [error |-> Null, profile |-> UserProfileOf(CHOOSE r \in rows : TRUE, role)]

\* PGRST116 thrown like any other query error
QueryOutcome_notFoundThrown(rows, role, fail) ==
  IF fail \/ rows = {}
  THEN [error |-> QueryErrMsg, profile |-> Null]
  ELSE [error |-> Null, profile |-> UserProfileOf(CHOOSE r \in rows : TRUE, role)]

\* what fetchUserProfile writes once its query has returned `rows` (fail: an
\* error other than PGRST116)
QueryOutcome(rows, role, fail) ==
  IF fail
  THEN [error |-> QueryErrMsg, profile |-> Null]
  ELSE IF rows = {}
  THEN [error |-> NoProfileMsg, profile |-> Null]
  ELSE [error |-> Null, profile |-> UserProfileOf(CHOOSE r \in rows : TRUE, role)]

\* the insert always sent to the faculty table
InsertCall_facultyOnly(role, id) == Call("insert", "faculty", id)

\* the insert signUp issues once the identity exists
InsertCall(role, id) == Call("insert", TableFor(role), id)

\* the insert error logged and not thrown
InsertOutcome_swallowed(insertError) ==
  [status |-> "resolved", err |-> Null, error |-> error]

\* how signUp settles once its insert has returned
InsertOutcome(insertError) ==
  IF insertError
  THEN [status |-> "rejected", err |-> InsertErrMsg, error |-> InsertErrMsg]
  ELSE [status |-> "resolved", err |-> Null, error |-> error]

\* signIn's catch re-throwing without setError
SignInOutcome_keepsError(signInError) ==
  IF signInError
  THEN [status |-> "rejected", err |-> SignInErrMsg, error |-> error, user |-> user]
  ELSE [status |-> "resolved", err |-> Null, error |-> error, user |-> user]

\* signIn setting the user itself from the data returned
SignInOutcome_setsUser(signInError) ==
  IF signInError
  THEN [status |-> "rejected", err |-> SignInErrMsg, error |-> SignInErrMsg, user |-> user]
  ELSE [status |-> "resolved", err |-> Null, error |-> error,
        user |-> [id |-> "U1", role |-> "faculty"]]

\* how signIn settles once the credential check has returned, and what it
\* leaves in error and user
SignInOutcome(signInError) ==
  IF signInError
  THEN [status |-> "rejected", err |-> SignInErrMsg, error |-> SignInErrMsg, user |-> user]
  ELSE [status |-> "resolved", err |-> Null, error |-> error, user |-> user]

\* the tables the older provider's fetchUserProfile(userId, role) queries
LegacyFetchTables(role) ==
  IF role = "faculty" THEN <<"faculty">>
  ELSE IF role = "student" THEN <<"students">>
  ELSE IF role = "parent" THEN <<"parents">>
  ELSE <<>>

\* ---------------------------------------------------------------- initial state
\* U1 has a row in every role table, U2 in none
InitTables == {[t \in TableNames |-> {SeedRow(t, id) : id \in S}] : S \in {{"U1"}}}
\* any set of seed rows
AnyTables == [TableNames -> SUBSET Ids]

InitWith(tabs) ==
  /\ user = Null
  /\ profile = Null
  /\ loading = TRUE
  /\ error = Null
  /\ mounted = TRUE
  /\ subscribed = TRUE
  /\ tasks = <<NewTask("init", "getSession", Null, <<Call("getSession", "", "")>>)>>
  /\ settled = NoneSettled
  /\ nOps = 0
  /\ tables = tabs
  /\ gate = "spinner"
  /\ dashboard = Unmounted

Init == \E tabs \in InitTables : InitWith(tabs)

\* ---------------------------------------------------------------- Session Synchronizer
SnapshotVars == <<user, profile, loading, error>>
EffectVars == <<mounted, subscribed>>

\* initializeAuth resumes after getSession: sessionError, or session?.user = su
GetSessionReturns(i, sessionError, su) ==
  LET t == tasks[i] IN
  /\ t.kind = "init"
  /\ t.pc = "getSession"
  /\ UNCHANGED <<EffectVars, settled, nOps, tables>>
  /\ IF sessionError
     THEN /\ tasks' = Remove(i)
          /\ IF Live
             THEN error' = SessionErrMsg /\ loading' = FALSE
             ELSE UNCHANGED <<error, loading>>
          /\ UNCHANGED <<user, profile>>
     ELSE IF ~Live
     THEN /\ tasks' = Remove(i)
          /\ UNCHANGED SnapshotVars
     ELSE IF ToBoolean(su)
     THEN LET f == FetchBegin(su, error) IN
          /\ user' = su
          /\ error' = f.error
          /\ UNCHANGED profile
          /\ IF f.pc = "done"
             THEN loading' = FALSE /\ tasks' = Remove(i)
             ELSE /\ tasks' = [tasks EXCEPT ![i] =
                                [t EXCEPT !.pc = f.pc, !.au = su, !.calls = t.calls \o f.calls]]
                  /\ UNCHANGED loading
     ELSE /\ user' = Null
          /\ profile' = Null
          /\ loading' = FALSE
          /\ tasks' = Remove(i)
          /\ UNCHANGED error

\* the callback taking every event other than SIGNED_IN for a sign-out
AuthStateChange_clearsOnAny(event, su) ==
  /\ nOps < MaxOps
  /\ nOps' = nOps + 1
  /\ UNCHANGED <<EffectVars, settled, tables>>
  /\ IF ~Live
     THEN UNCHANGED <<SnapshotVars, tasks>>
     ELSE IF event = "SIGNED_IN" /\ ToBoolean(su)
     THEN LET f == FetchBegin(su, Null) IN
          /\ user' = su
          /\ error' = f.error
          /\ UNCHANGED profile
          /\ IF f.pc = "done"
             THEN loading' = FALSE /\ UNCHANGED tasks
             ELSE /\ tasks' = Append(tasks, NewTask("event", f.pc, su, f.calls))
                  /\ UNCHANGED loading
     ELSE /\ user' = SignedOutState.user
          /\ profile' = SignedOutState.profile
          /\ error' = SignedOutState.error
          /\ loading' = FALSE
          /\ UNCHANGED tasks

\* the onAuthStateChange callback, up to its first await
AuthStateChange(event, su) ==
  /\ nOps < MaxOps
  /\ nOps' = nOps + 1
  /\ UNCHANGED <<EffectVars, settled, tables>>
  /\ IF ~Live
     THEN UNCHANGED <<SnapshotVars, tasks>>
     ELSE IF event = "SIGNED_IN" /\ ToBoolean(su)
     THEN LET f == FetchBegin(su, Null) IN
          /\ user' = su
          /\ error' = f.error
          /\ UNCHANGED profile
          /\ IF f.pc = "done"
             THEN loading' = FALSE /\ UNCHANGED tasks
             ELSE /\ tasks' = Append(tasks, NewTask("event", f.pc, su, f.calls))
                  /\ UNCHANGED loading
     ELSE IF event = "SIGNED_OUT"
     THEN /\ user' = SignedOutState.user
          /\ profile' = SignedOutState.profile
          /\ error' = SignedOutState.error
          /\ loading' = FALSE
          /\ UNCHANGED tasks
     ELSE /\ loading' = FALSE
          /\ UNCHANGED <<user, profile, error, tasks>>

\* the result of a fetch dropped when another session has been taken up since
FetchReturns_ignoresStale(i, fail) ==
  LET t == tasks[i]
      q == t.calls[Len(t.calls)]
      rows == SelectEq(q.table, q.id)
  IN
  /\ t.kind \in {"init", "event"}
  /\ t.pc = "query"
  /\ tasks' = Remove(i)
  /\ loading' = FALSE
  /\ UNCHANGED <<user, EffectVars, settled, nOps, tables>>
  /\ IF t.au = user
     THEN /\ error' = QueryOutcome(rows, t.au.role, fail).error
          /\ profile' = QueryOutcome(rows, t.au.role, fail).profile
     ELSE UNCHANGED <<error, profile>>

\* a failed table query thrown on to the caller of fetchUserProfile
FetchReturns_rethrows(i, fail) ==
  LET t == tasks[i]
      q == t.calls[Len(t.calls)]
      rows == SelectEq(q.table, q.id)
  IN
  /\ t.kind \in {"init", "event"}
  /\ t.pc = "query"
  /\ tasks' = Remove(i)
  /\ UNCHANGED <<user, EffectVars, settled, nOps, tables>>
  /\ IF fail
     THEN /\ UNCHANGED profile
          /\ IF t.kind = "init" /\ mounted
             THEN error' = QueryErrMsg /\ loading' = FALSE
             ELSE UNCHANGED <<error, loading>>
     ELSE /\ loading' = FALSE
          /\ error' = QueryOutcome(rows, t.au.role, fail).error
          /\ profile' = QueryOutcome(rows, t.au.role, fail).profile

\* a failed table query issued again
FetchReturns_retry(i, fail) ==
  LET t == tasks[i]
      q == t.calls[Len(t.calls)]
      rows == SelectEq(q.table, q.id)
  IN
  /\ t.kind \in {"init", "event"}
  /\ t.pc = "query"
  /\ UNCHANGED <<user, EffectVars, settled, nOps, tables>>
  /\ IF fail /\ Len(t.calls) < 3
     THEN /\ tasks' = [tasks EXCEPT ![i] = [t EXCEPT !.calls = Append(t.calls, q)]]
          /\ UNCHANGED <<loading, error, profile>>
     ELSE /\ tasks' = Remove(i)
          /\ loading' = FALSE
          /\ error' = QueryOutcome(rows, t.au.role, fail).error
          /\ profile' = QueryOutcome(rows, t.au.role, fail).profile

\* fetchUserProfile resumes after the table query (fail: a failure other
\* than PGRST116) and returns to its caller (initializeAuth or the
\* onAuthStateChange callback), which runs to its end
FetchReturns(i, fail) ==
  LET t == tasks[i]
      q == t.calls[Len(t.calls)]
      rows == SelectEq(q.table, q.id)
  IN
  /\ t.kind \in {"init", "event"}
  /\ t.pc = "query"
  /\ tasks' = Remove(i)
  /\ loading' = FALSE
  /\ UNCHANGED <<user, EffectVars, settled, nOps, tables>>
  /\ error' = QueryOutcome(rows, t.au.role, fail).error
  /\ profile' = QueryOutcome(rows, t.au.role, fail).profile

\* the effect's cleanup
Teardown ==
  /\ mounted
  /\ mounted' = FALSE
  /\ subscribed' = FALSE
  /\ UNCHANGED <<SnapshotVars, tasks, settled, nOps, tables>>

\* ---------------------------------------------------------------- Auth Actions
\* signUp up to `await supabase.auth.signUp(...)`
SignUpCalled(role) ==
  /\ nOps < MaxOps
  /\ nOps' = nOps + 1
  /\ loading' = TRUE
  /\ error' = Null
  /\ tasks' = Append(tasks, NewTask("signUp", "signUp", [id |-> "undefined", role |-> role],
                                    <<Call("auth.signUp", "", "")>>))
  /\ UNCHANGED <<user, profile, EffectVars, settled, tables>>

\* signUp resumes after identity creation: signUpError, or data.user (an
\* identity with the newly issued id, or none)
SignUpReturns(i, signUpError, hasUser, id) ==
  LET t == tasks[i] IN
  /\ t.kind = "signUp"
  /\ t.pc = "signUp"
  /\ UNCHANGED <<user, profile, EffectVars, nOps, tables>>
  /\ IF signUpError
     THEN /\ error' = SignUpErrMsg
          /\ loading' = FALSE
          /\ settled' = Settle(t, "rejected", SignUpErrMsg)
          /\ tasks' = Remove(i)
     ELSE IF hasUser
     THEN /\ tasks' = [tasks EXCEPT ![i] =
                         [t EXCEPT !.pc = "insert", !.au = [t.au EXCEPT !.id = id],
                                   !.calls = Append(t.calls, InsertCall(t.au.role, id))]]
          /\ UNCHANGED <<loading, error, settled>>
     ELSE /\ loading' = FALSE
          /\ settled' = Settle(t, "resolved", Null)
          /\ tasks' = Remove(i)
          /\ UNCHANGED error

\* signUp resumes after the role-table insert (a row with the same id is a
\* primary-key conflict)
InsertReturns(i, fail) ==
  LET t == tasks[i]
      q == t.calls[Len(t.calls)]
      insertError == fail \/ SelectEq(q.table, q.id) # {}
  IN
  /\ t.kind = "signUp"
  /\ t.pc = "insert"
  /\ loading' = FALSE
  /\ tasks' = Remove(i)
  /\ UNCHANGED <<user, profile, EffectVars, nOps>>
  /\ error' = InsertOutcome(insertError).error
  /\ settled' = Settle(t, InsertOutcome(insertError).status, InsertOutcome(insertError).err)
  /\ IF insertError
     THEN UNCHANGED tables
     ELSE tables' = [tables EXCEPT ![q.table] = @ \cup {InsertData(q.id)}]

\* signIn up to `await supabase.auth.signInWithPassword(...)`
SignInCalled ==
  /\ nOps < MaxOps
  /\ nOps' = nOps + 1
  /\ loading' = TRUE
  /\ error' = Null
  /\ tasks' = Append(tasks, NewTask("signIn", "signIn", Null,
                                    <<Call("auth.signInWithPassword", "", "")>>))
  /\ UNCHANGED <<user, profile, EffectVars, settled, tables>>

\* signIn resumes after the credential check
SignInReturns(i, signInError) ==
  LET t == tasks[i] IN
  /\ t.kind = "signIn"
  /\ t.pc = "signIn"
  /\ loading' = FALSE
  /\ tasks' = Remove(i)
  /\ UNCHANGED <<profile, EffectVars, nOps, tables>>
  /\ user' = SignInOutcome(signInError).user
  /\ error' = SignInOutcome(signInError).error
  /\ settled' = Settle(t, SignInOutcome(signInError).status, SignInOutcome(signInError).err)

\* signOut up to `await supabase.auth.signOut()`
SignOutCalled ==
  /\ nOps < MaxOps
  /\ nOps' = nOps + 1
  /\ loading' = TRUE
  /\ tasks' = Append(tasks, NewTask("signOut", "signOut", Null,
                                    <<Call("auth.signOut", "", "")>>))
  /\ UNCHANGED <<user, profile, error, EffectVars, settled, tables>>

\* signOut resumes after the remote sign-out
SignOutReturns(i, signOutError) ==
  LET t == tasks[i] IN
  /\ t.kind = "signOut"
  /\ t.pc = "signOut"
  /\ loading' = FALSE
  /\ tasks' = Remove(i)
  /\ UNCHANGED <<EffectVars, nOps, tables>>
  /\ IF signOutError
     THEN /\ error' = SignOutErrMsg
          /\ settled' = Settle(t, "resolved", Null)
          /\ UNCHANGED <<user, profile>>
     ELSE /\ user' = Null
          /\ profile' = Null
          /\ error' = Null
          /\ settled' = Settle(t, "resolved", Null)

\* ---------------------------------------------------------------- specification
SessionUsers == Users \cup {Undefined}

Synchronizer ==
  \/ \E i \in DOMAIN tasks, e \in BOOLEAN, su \in SessionUsers : GetSessionReturns(i, e, su) /\ Rendered
  \/ \E ev \in EventKinds, su \in SessionUsers : AuthStateChange(ev, su) /\ Rendered
  \/ \E i \in DOMAIN tasks, fail \in BOOLEAN : FetchReturns(i, fail) /\ Rendered
  \/ Teardown /\ Rendered

AuthActions ==
  \/ \E r \in SignUpRoles : SignUpCalled(r) /\ Rendered
  \/ \E i \in DOMAIN tasks, e \in BOOLEAN, h \in BOOLEAN, id \in NewIds : SignUpReturns(i, e, h, id) /\ Rendered
  \/ \E i \in DOMAIN tasks, fail \in BOOLEAN : InsertReturns(i, fail) /\ Rendered
  \/ SignInCalled /\ Rendered
  \/ \E i \in DOMAIN tasks, e \in BOOLEAN : SignInReturns(i, e) /\ Rendered
  \/ SignOutCalled /\ Rendered
  \/ \E i \in DOMAIN tasks, e \in BOOLEAN : SignOutReturns(i, e) /\ Rendered

Next == Synchronizer \/ AuthActions

Spec == Init /\ [][Next]_vars

\* the mount-time session check alone, against a remote service whose table
\* queries do not fail: no auth event, no auth action, no teardown
MountInit ==
  \E rows \in AnyTables :
    InitWith([t \in TableNames |-> {SeedRow(t, id) : id \in rows[t]}])

MountNext ==
  \/ \E i \in DOMAIN tasks, e \in BOOLEAN, su \in SessionUsers : GetSessionReturns(i, e, su) /\ Rendered
  \/ \E i \in DOMAIN tasks : FetchReturns(i, FALSE) /\ Rendered

MountSpec == MountInit /\ [][MountNext]_vars /\ WF_vars(MountNext)

\* the mount-time session check alone, every remote call returning in the
\* end, with whatever result: a session, none or an error from getSession;
\* a row, no row or a failure from the table query
LoadNext ==
  \/ \E i \in DOMAIN tasks, e \in BOOLEAN, su \in SessionUsers :
       GetSessionReturns(i, e, su) /\ Rendered
  \/ \E i \in DOMAIN tasks, fail \in BOOLEAN : FetchReturns(i, fail) /\ Rendered

LoadSpec == MountInit /\ [][LoadNext]_vars /\ WF_vars(LoadNext)

\* the mount-time session check and one SIGNED_IN event for the same
\* session, against a remote service whose table queries do not fail and
\* whose tables nobody writes: no other event, no auth action, no teardown
SameSession(su) == user = Null \/ user = su

DupNext ==
  \/ \E i \in DOMAIN tasks, su \in Users :
       SameSession(su) /\ GetSessionReturns(i, FALSE, su) /\ Rendered
  \/ \E su \in Users :
       SameSession(su) /\ nOps = 0 /\ AuthStateChange("SIGNED_IN", su) /\ Rendered
  \/ \E i \in DOMAIN tasks : FetchReturns(i, FALSE) /\ Rendered

DupSpec == MountInit /\ [][DupNext]_vars

\* one signUp, started once the mount check has found no session, and the
\* SIGNED_IN event the auth service emits for the new identity while the
\* signUp is in flight; no remote call fails
RaceInit ==
  /\ user = Null
  /\ profile = Null
  /\ loading = FALSE
  /\ error = Null
  /\ mounted = TRUE
  /\ subscribed = TRUE
  /\ tasks = <<>>
  /\ settled = NoneSettled
  /\ nOps = 0
  /\ \E rows \in AnyTables :
       tables = [t \in TableNames |-> {SeedRow(t, id) : id \in rows[t]}]
  /\ gate = "login"
  /\ dashboard = Unmounted

RaceNext ==
  \/ \E r \in SignUpRoles : nOps = 0 /\ SignUpCalled(r) /\ Rendered
  \/ \E i \in DOMAIN tasks, id \in NewIds : SignUpReturns(i, FALSE, TRUE, id) /\ Rendered
  \/ \E i \in DOMAIN tasks, id \in NewIds :
       /\ tasks[i].kind = "signUp"
       /\ nOps = 1
       /\ AuthStateChange("SIGNED_IN", [id |-> id, role |-> tasks[i].au.role])
       /\ Rendered
  \/ \E i \in DOMAIN tasks : FetchReturns(i, FALSE) /\ Rendered
  \/ \E i \in DOMAIN tasks : InsertReturns(i, FALSE) /\ Rendered

RaceSpec == RaceInit /\ [][RaceNext]_vars

\* ---------------------------------------------------------------- context/AuthContext.tsx
\* The provider of context/AuthContext.tsx: its SIGNED_IN handler, its
\* fetchUserProfile(userId) and its signup.  Its state is user (a row or
\* null); error, profile and the views are not part of it.
CtxTables == {"faculty", "students", "users", "parents"}
SuccessToast == Str("Account created successfully!")

\* a row of table t as seeded (users rows carry a role column)
CtxRow(t, id) ==
  [id |-> id,
   name |-> CASE t = "faculty" -> "Ravi" [] t = "users" -> "Asha" [] OTHER -> "Meera",
   role |-> IF t = "users" THEN "student" ELSE "undefined"]

\* the row signup inserts into table t for role r
CtxInsertData(t, id, r) ==
  [id |-> id, name |-> "New User", role |-> IF t = "users" THEN r ELSE "undefined"]

CtxSelectEq(t, id) == {r \in tables[t] : r.id = id}

\* the lookup order with users and parents exchanged
CtxNextTable_parentsFirst(t) ==
  CASE t = "faculty" -> "parents"
    [] t = "parents" -> "users"
    [] OTHER         -> ""

\* the table fetchUserProfile turns to when table t gave no row; "" after
\* the last
CtxNextTable(t) ==
  CASE t = "faculty" -> "users"
    [] t = "users"   -> "parents"
    [] OTHER         -> ""

\* the value fetchUserProfile passes to setUser for a row of table t
CtxUserOf(t, data) ==
  CASE t = "faculty" -> [data EXCEPT !.role = "faculty"]
    [] t = "parents" -> [data EXCEPT !.role = "parent"]
    [] OTHER         -> data

\* the tables signup inserts into for a role, in order
CtxInsertTables(role) ==
  CASE role = "faculty" -> <<"faculty">>
    [] role = "student" -> <<"students", "users">>
    [] role = "parent"  -> <<"parents", "users">>
    [] OTHER            -> <<>>

\* the record of a settled signup: how its promise settled and its toast
CtxSettle(t, status, err, toast) ==
  [kind |-> t.kind, calls |-> t.calls, status |-> status, err |-> err, toast |-> toast]

CtxInit ==
  /\ user = Null
  /\ profile = Null
  /\ loading = FALSE
  /\ error = Null
  /\ mounted = TRUE
  /\ subscribed = TRUE
  /\ tasks = <<>>
  /\ settled = NoneSettled
  /\ nOps = 0
  /\ \E rows \in [{"faculty", "users", "parents"} -> SUBSET Ids] :
       tables = [t \in CtxTables |->
                  IF t = "students" THEN {} ELSE {CtxRow(t, id) : id \in rows[t]}]
  /\ gate = Unmounted
  /\ dashboard = Unmounted

CtxFrame == <<profile, loading, error, mounted, subscribed, gate, dashboard>>

\* the onAuthStateChange callback on SIGNED_IN with a session user:
\* fetchUserProfile up to its first query
CtxSignedIn(id) ==
  /\ nOps < MaxOps
  /\ nOps' = nOps + 1
  /\ tasks' = Append(tasks, NewTask("fetch", "faculty", [id |-> id, role |-> "undefined"],
                                    <<Call("select", "faculty", id)>>))
  /\ UNCHANGED <<user, settled, tables, CtxFrame>>

\* fetchUserProfile resumes after a query (fail: the query returned an
\* error, and no data)
CtxFetchReturns(i, fail) ==
  LET t == tasks[i]
      rows == CtxSelectEq(t.pc, t.au.id)
      found == ~fail /\ rows # {}
      next == CtxNextTable(t.pc)
  IN
  /\ t.kind = "fetch"
  /\ UNCHANGED <<settled, nOps, tables, CtxFrame>>
  /\ IF found
     THEN /\ user' = CtxUserOf(t.pc, CHOOSE r \in rows : TRUE)
          /\ tasks' = Remove(i)
     ELSE /\ UNCHANGED user
          /\ IF next = ""
             THEN tasks' = Remove(i)
             ELSE tasks' = [tasks EXCEPT ![i] =
                             [t EXCEPT !.pc = next,
                                       !.calls = Append(t.calls, Call("select", next, t.au.id))]]

\* signup up to `await supabase.auth.signUp(...)`
CtxSignupCalled(role) ==
  /\ nOps < MaxOps
  /\ nOps' = nOps + 1
  /\ tasks' = Append(tasks, NewTask("signup", "signUp", [id |-> "undefined", role |-> role],
                                    <<Call("auth.signUp", "", "")>>))
  /\ UNCHANGED <<user, settled, tables, CtxFrame>>

\* signup resumes after identity creation
CtxSignupReturns(i, signUpError, hasUser, id) ==
  LET t == tasks[i]
      ins == CtxInsertTables(t.au.role)
  IN
  /\ t.kind = "signup"
  /\ t.pc = "signUp"
  /\ UNCHANGED <<user, nOps, tables, CtxFrame>>
  /\ IF signUpError
     THEN /\ settled' = CtxSettle(t, "rejected", SignUpErrMsg, SignUpErrMsg)
          /\ tasks' = Remove(i)
     ELSE IF hasUser /\ ins # <<>>
     THEN /\ tasks' = [tasks EXCEPT ![i] =
                         [t EXCEPT !.pc = "insert", !.au = [t.au EXCEPT !.id = id],
                                   !.calls = Append(t.calls, Call("insert", ins[1], id))]]
          /\ UNCHANGED settled
     ELSE /\ settled' = CtxSettle(t, "resolved", Null, SuccessToast)
          /\ tasks' = Remove(i)

\* signup resumes after one of its inserts; the value the insert resolved
\* with is not read (a row with the same id is a primary-key conflict)
CtxInsertReturns(i, fail) ==
  LET t == tasks[i]
      q == t.calls[Len(t.calls)]
      ins == CtxInsertTables(t.au.role)
      done == Len(t.calls) - 1
      insertError == fail \/ CtxSelectEq(q.table, q.id) # {}
  IN
  /\ t.kind = "signup"
  /\ t.pc = "insert"
  /\ UNCHANGED <<user, nOps, CtxFrame>>
  /\ IF insertError
     THEN UNCHANGED tables
     ELSE tables' = [tables EXCEPT ![q.table] = @ \cup {CtxInsertData(q.table, q.id, t.au.role)}]
  /\ IF done < Len(ins)
     THEN /\ tasks' = [tasks EXCEPT ![i] =
                         [t EXCEPT !.calls = Append(t.calls, Call("insert", ins[done + 1], q.id))]]
          /\ UNCHANGED settled
     ELSE /\ settled' = CtxSettle(t, "resolved", Null, SuccessToast)
          /\ tasks' = Remove(i)

CtxNext ==
  \/ \E id \in Ids : CtxSignedIn(id)
  \/ \E i \in DOMAIN tasks, fail \in BOOLEAN : CtxFetchReturns(i, fail)
  \/ \E r \in SignUpRoles : CtxSignupCalled(r)
  \/ \E i \in DOMAIN tasks, e \in BOOLEAN, h \in BOOLEAN, id \in NewIds :
       CtxSignupReturns(i, e, h, id)
  \/ \E i \in DOMAIN tasks, fail \in BOOLEAN : CtxInsertReturns(i, fail)

CtxSpec == CtxInit /\ [][CtxNext]_vars

\* ---------------------------------------------------------------- the views alone
\* ProtectedRoute and DashboardRouter rendered against any snapshot the
\* context can hand them: any session user or none, any profile or none
\* (its role any string the row was loaded with), either value of loading,
\* no error, a message or the empty message
ViewUsers == Users \cup {Null}
ViewProfiles ==
  {Null} \cup {UserProfileOf(SeedRow("faculty", "U1"), r) :
                 r \in {"faculty", "student", "parent", "admin"}}
ViewErrors == {Null, NoProfileMsg, QueryErrMsg, Str("")}

ViewInit ==
  /\ user \in ViewUsers
  /\ profile \in ViewProfiles
  /\ loading \in BOOLEAN
  /\ error \in ViewErrors
  /\ mounted = TRUE
  /\ subscribed = TRUE
  /\ tasks = <<>>
  /\ settled = NoneSettled
  /\ nOps = 0
  /\ tables \in InitTables
  /\ gate = Unmounted
  /\ dashboard = Unmounted

\* ProtectedRoute renders; it reads the context and writes nothing
RenderGate ==
  /\ gate = Unmounted
  /\ gate' = ProtectedRoute
  /\ UNCHANGED <<SnapshotVars, EffectVars, tasks, settled, nOps, tables, dashboard>>

\* DashboardRouter renders; it reads the context and writes nothing
RenderRouter ==
  /\ dashboard = Unmounted
  /\ dashboard' = DashboardRouter
  /\ UNCHANGED <<SnapshotVars, EffectVars, tasks, settled, nOps, tables, gate>>

ViewNext == RenderGate \/ RenderRouter

ViewSpec == ViewInit /\ [][ViewNext]_vars

\* ---------------------------------------------------------------- steps, by component
SignOutStep == \E i \in DOMAIN tasks, e \in BOOLEAN : SignOutReturns(i, e)
FetchStep == \E i \in DOMAIN tasks, fail \in BOOLEAN : FetchReturns(i, fail)
\* a profile fetch is started for session user su (event or mount check)
FetchStartedFor(su) ==
  \/ mounted /\ AuthStateChange("SIGNED_IN", su)
  \/ mounted /\ \E i \in DOMAIN tasks : GetSessionReturns(i, FALSE, su)
\* the table queries in flight (task, position in its calls), and their number
Queries(ts) ==
  {<<j, k>> \in (DOMAIN ts) \X (1..3) : k \in DOMAIN ts[j].calls /\ ts[j].calls[k].op = "select"}
NQueries(ts) == Cardinality(Queries(ts))
RecognizedRoles == {"faculty", "student", "parent"}

\* ---------------------------------------------------------------- claims
\* C1: after signOut settles, user is null and profile is null, whether the
\* remote sign-out call succeeded or returned an error.
C1_SignOutAlwaysClears ==
  [][SignOutStep => (user' = Null /\ profile' = Null)]_vars

\* C2: when a profile fetch resolves after teardown, none of user, profile,
\* loading, error changes.
C2_NoWriteAfterTeardown ==
  [][(~mounted /\ FetchStep) => UNCHANGED SnapshotVars]_vars

\* C3: a profile fetch for a session whose role claim is absent or not one
\* of faculty, student, parent issues no table query and leaves error set
\* to the role message and profile = null, whatever the snapshot held before.
C3_BadRoleClearsProfile ==
  [][\A su \in Users :
       (su.role \notin RecognizedRoles /\ FetchStartedFor(su))
         => /\ NQueries(tasks') <= NQueries(tasks)
            /\ error' \in {NoRoleMsg, InvalidRoleMsg}
            /\ profile' = Null]_vars

\* C4: in every reachable snapshot isAuthenticated is true exactly when user
\* is non-null and profile is non-null.
C4_IsAuthenticatedIff ==
  isAuthenticated <=> (user # Null /\ profile # Null)

C4_Witness == isAuthenticated /\ user # Null /\ profile # Null /\ ~loading

\* the role-to-table mapping of the external interface
RoleTable == [faculty |-> "faculty", student |-> "students", parent |-> "parents"]
SelectsOf(t) == SelectSeq(t.calls, LAMBDA c : c.op = "select")
FetchTasks(ts) == {j \in DOMAIN ts : ts[j].kind \in {"init", "event"} /\ ts[j].pc = "query"}
OneRoleQuery(t) == SelectsOf(t) = <<Call("select", RoleTable[t.au.role], t.au.id)>>

\* C5: for a session with a recognized role, each profile fetch queries
\* exactly one table, the one the role fixes (faculty -> faculty, student ->
\* students, parent -> parents), filtered by the session's user id, and no
\* other table; the older provider's fetch queries the same single table.
C5_OneQueryOnRoleTable ==
  [][/\ \A su \in Users :
          (su.role \in RecognizedRoles /\ FetchStartedFor(su))
            => /\ NQueries(tasks') = NQueries(tasks) + 1
               /\ \E j \in FetchTasks(tasks') : tasks'[j].au = su
     /\ \A j \in FetchTasks(tasks') :
          tasks'[j].au.role \in RecognizedRoles /\ OneRoleQuery(tasks'[j])
     /\ FetchStep => NQueries(tasks') = NQueries(tasks) - 1
     /\ \A r \in RecognizedRoles : LegacyFetchTables(r) = <<RoleTable[r]>>]_vars

C5_Witness ==
  \E j \in FetchTasks(tasks) :
    /\ tasks[j].kind = "event"
    /\ tasks[j].au = [id |-> "U2", role |-> "parent"]
    /\ SelectsOf(tasks[j]) = <<Call("select", "parents", "U2")>>

LastCall(t) == t.calls[Len(t.calls)]

\* C6: for a recognized role whose table has no row for the session's id,
\* the profile fetch returns normally with error = 'No profile found. Please
\* contact admin.', profile = null and isAuthenticated = false.
C6_NotFoundIsDistinguished ==
  [][\A i \in DOMAIN tasks :
       (/\ FetchReturns(i, FALSE)
        /\ SelectEq(LastCall(tasks[i]).table, LastCall(tasks[i]).id) = {})
         => /\ error' = NoProfileMsg
            /\ profile' = Null
            /\ ~isAuthenticated'
            /\ ~loading']_vars

C6_Witness ==
  error = NoProfileMsg /\ profile = Null /\ user = [id |-> "U2", role |-> "parent"] /\ ~loading

\* the profile the scenario expects for user u and row r
ExpectedProfile(u, r) ==
  [id |-> u.id, role |-> u.role,
   name |-> IF r.name # "undefined" THEN r.name ELSE r.full_name,
   email |-> r.email, roll_no |-> r.roll_no, standard |-> r.standard,
   class |-> r.class, linked_student_roll |-> r.linked_student_roll]

MountFetchingFor(u) ==
  \E i \in DOMAIN tasks :
    tasks[i].kind = "init" /\ tasks[i].pc = "query" /\ tasks[i].au = u

\* C7: if the mount-time session check returns a session for id U with a
\* recognized role R and table(R) holds a row for U, and nothing else
\* happens, the snapshot eventually has user = the session's user, the
\* profile with id U, role R and the row's fields, error = null,
\* loading = false and isAuthenticated = true.
C7_MountLoadsProfile ==
  \A u \in {v \in Users : v.role \in RecognizedRoles} :
    (MountFetchingFor(u) /\ SelectEq(RoleTable[u.role], u.id) # {})
    ~> (\E r \in SelectEq(RoleTable[u.role], u.id) :
          /\ user = u
          /\ profile = ExpectedProfile(u, r)
          /\ error = Null
          /\ ~loading
          /\ isAuthenticated)

C7_Witness ==
  /\ user = [id |-> "U1", role |-> "student"]
  /\ profile = ExpectedProfile(user, SeedRow("students", "U1"))
  /\ profile.roll_no = "STD-A-01"
  /\ error = Null /\ ~loading /\ isAuthenticated /\ tasks = <<>>

SignUpStep ==
  \/ \E r \in SignUpRoles : SignUpCalled(r)
  \/ \E i \in DOMAIN tasks, e \in BOOLEAN, h \in BOOLEAN, id \in NewIds : SignUpReturns(i, e, h, id)
  \/ \E i \in DOMAIN tasks, fail \in BOOLEAN : InsertReturns(i, fail)

\* C8: when identity creation succeeded and the role-table insert fails,
\* signUp rejects with the insert error; no step of signUp writes user or
\* profile.
C8_InsertFailureRejects ==
  [][/\ SignUpStep => UNCHANGED <<user, profile>>
     /\ \A i \in DOMAIN tasks, fail \in BOOLEAN :
          (/\ InsertReturns(i, fail)
           /\ fail \/ SelectEq(LastCall(tasks[i]).table, LastCall(tasks[i]).id) # {})
            => /\ settled'.kind = "signUp"
               /\ settled'.status = "rejected"
               /\ settled'.err = InsertErrMsg
               /\ tables' = tables]_vars

C8_Witness ==
  /\ settled.kind = "signUp" /\ settled.status = "rejected" /\ settled.err = InsertErrMsg
  /\ Len(settled.calls) = 2
  /\ profile = Null

AuthSignUpCall == Call("auth.signUp", "", "")

\* C9: signUp issues its insert only after identity creation has returned
\* a user, at most once, into the table of the requested role and with the
\* newly issued id; when identity creation fails no insert is issued.
C9_SignUpOrder ==
  /\ \A i \in DOMAIN tasks :
       tasks[i].kind = "signUp" =>
         /\ tasks[i].pc = "signUp" =>
              tasks[i].calls = <<AuthSignUpCall>> /\ tasks[i].au.id = "undefined"
         /\ tasks[i].pc = "insert" =>
              /\ tasks[i].au.id \in NewIds
              /\ tasks[i].calls = <<AuthSignUpCall,
                                    Call("insert", RoleTable[tasks[i].au.role], tasks[i].au.id)>>
  /\ settled.kind = "signUp" =>
       /\ Len(settled.calls) \in {1, 2}
       /\ settled.calls[1] = AuthSignUpCall
       /\ settled.err = SignUpErrMsg => Len(settled.calls) = 1
       /\ Len(settled.calls) = 2 =>
            /\ settled.calls[2].op = "insert"
            /\ settled.calls[2].table \in {RoleTable[r] : r \in SignUpRoles}
            /\ settled.calls[2].id \in NewIds

C9_Witness ==
  \E i \in DOMAIN tasks :
    /\ tasks[i].kind = "signUp" /\ tasks[i].pc = "insert"
    /\ LastCall(tasks[i]) = Call("insert", "parents", "U2")

SignInStep ==
  \/ SignInCalled
  \/ \E i \in DOMAIN tasks, e \in BOOLEAN : SignInReturns(i, e)

\* C10: signIn issues no profile-table query and writes neither user nor
\* profile; user is set only when the Synchronizer takes up a session (a
\* SIGNED_IN event, or the mount check) and profile only when the profile
\* fetch it started returns.
C10_SignInWritesNothing ==
  [][/\ SignInStep =>
          /\ UNCHANGED <<user, profile, tables>>
          /\ NQueries(tasks') <= NQueries(tasks)
     /\ \A i \in DOMAIN tasks :
          tasks[i].kind = "signIn" => tasks[i].calls = <<Call("auth.signInWithPassword", "", "")>>
     /\ (user' # user /\ user' # Null) => \E su \in Users : user' = su /\ FetchStartedFor(su)
     /\ (profile' # profile /\ profile' # Null) => FetchStep]_vars

C10_Witness ==
  /\ settled.kind = "signIn" /\ settled.status = "resolved"
  /\ user = Null /\ profile = Null /\ tasks = <<>>

\* an auth action (signUp, signIn, signOut) has started and not yet settled
ActionInFlight ==
  \E i \in DOMAIN tasks : tasks[i].kind \in {"signUp", "signIn", "signOut"}

\* C11: loading is true for the whole duration of each auth action: in every
\* reachable state in which signUp, signIn or signOut has started and not
\* yet settled, loading is true, whatever event or other action was handled
\* in the meantime.
C11_LoadingDuringAction == ActionInFlight => loading

\* the invocation of `kind` has just settled by rejecting with message msg
RejectedWith(kind, msg) ==
  settled'.kind = kind /\ settled'.status = "rejected" /\ settled'.err = msg

\* C12: each auth action re-throws to its caller when its remote call
\* fails: the promise returned by signUp, signIn or signOut rejects with the
\* remote error (identity creation, insert, credential check, sign-out).
C12_ActionsRethrow ==
  [][\A i \in DOMAIN tasks :
       /\ (\E h \in BOOLEAN, id \in NewIds : SignUpReturns(i, TRUE, h, id))
            => RejectedWith("signUp", SignUpErrMsg)
       /\ InsertReturns(i, TRUE) => RejectedWith("signUp", InsertErrMsg)
       /\ SignInReturns(i, TRUE) => RejectedWith("signIn", SignInErrMsg)
       /\ SignOutReturns(i, TRUE) => RejectedWith("signOut", SignOutErrMsg)]_vars

\* the gate's decision as a priority list over the snapshot
GateByPriority ==
  CASE loading                      -> "spinner"
    [] ~loading /\ error # Null /\ user = Null -> "login"
    [] OTHER ->
         IF ~isAuthenticated THEN "login"
         ELSE IF error = Str("No profile found. Please contact admin.")
         THEN "profile-not-found"
         ELSE "children"

\* C13: the Route Gate's output is a function of the snapshot alone, by
\* priority: loading -> spinner; else error set and user null -> login form;
\* else not isAuthenticated -> login form; else error = the not-found
\* message -> profile-not-found message; else children.  So children are
\* rendered only when loading = false, user is non-null and profile is
\* non-null.
C13_GatePriority ==
  gate # Unmounted =>
    /\ gate = GateByPriority
    /\ gate = "children" => (~loading /\ user # Null /\ profile # Null)

C13_Witness ==
  gate = "children" /\ ~loading /\ user # Null /\ profile # Null /\ error = QueryErrMsg

\* the router's mapping of role to view
RouterByRole ==
  IF ~isAuthenticated \/ profile = Null THEN "null"
  ELSE IF profile.role = "faculty" THEN "FacultyDashboard"
  ELSE IF profile.role = "student" THEN "StudentDashboard"
  ELSE IF profile.role = "parent" THEN "ParentDashboard"
  ELSE "Unknown Role"

\* C15: the Dashboard Router is a pure mapping of the snapshot: nothing when
\* isAuthenticated is false or profile is null; otherwise faculty ->
\* FacultyDashboard, student -> StudentDashboard, parent -> ParentDashboard,
\* any other role -> the 'Unknown Role' diagnostic; rendering writes no
\* snapshot field.
C15_RouterMapping ==
  [][RenderRouter => (dashboard' = RouterByRole /\ UNCHANGED SnapshotVars)]_vars

C15_Witness ==
  dashboard = "Unknown Role" /\ isAuthenticated /\ profile.role = "admin"

\* C14: whenever a SIGNED_OUT event is handled while the provider is
\* mounted, the snapshot right after the handler has user = null,
\* profile = null, error = null and loading = false.
C14_SignedOutClears ==
  [][\A su \in SessionUsers :
       (mounted /\ AuthStateChange("SIGNED_OUT", su))
         => (user' = Null /\ profile' = Null /\ error' = Null /\ ~loading')]_vars

\* the mount check had taken up a session and awaits its query when the one
\* event delivered so far, SIGNED_OUT, cleared the user
C14_Witness ==
  /\ mounted /\ nOps = 1 /\ settled = NoneSettled
  /\ \E i \in DOMAIN tasks : tasks[i].kind = "init" /\ tasks[i].pc = "query"
  /\ Len(tasks) = 1
  /\ user = Null /\ profile = Null /\ error = Null /\ ~loading

EventStep == \E ev \in EventKinds, su \in SessionUsers : AuthStateChange(ev, su)
GetSessionStep ==
  \E i \in DOMAIN tasks, e \in BOOLEAN, su \in SessionUsers : GetSessionReturns(i, e, su)

\* C16: after teardown, an auth event of any kind delivered to the handler,
\* and the mount-time getSession call resolving (with a session, without
\* one, or with an error), change none of user, profile, loading, error and
\* start no profile fetch.
C16_NothingAfterTeardown ==
  [][(~mounted /\ (EventStep \/ GetSessionStep))
       => /\ UNCHANGED SnapshotVars
          /\ NQueries(tasks') <= NQueries(tasks)
          /\ Cardinality(FetchTasks(tasks')) <= Cardinality(FetchTasks(tasks))]_vars

\* torn down before getSession resolved; getSession has since resolved and
\* events were delivered, and the snapshot is still the initial one
C16_Witness ==
  /\ ~mounted /\ tasks = <<>> /\ nOps >= 1 /\ settled = NoneSettled
  /\ user = Null /\ profile = Null /\ error = Null /\ loading

\* the snapshot one profile fetch for session user u leaves
SingleFetchSnapshot(u) ==
  LET rows == IF u.role \in RecognizedRoles THEN SelectEq(RoleTable[u.role], u.id) ELSE {} IN
  [user |-> u,
   profile |-> IF rows = {} THEN Null ELSE ExpectedProfile(u, CHOOSE r \in rows : TRUE),
   error |-> IF u.role = "undefined" THEN NoRoleMsg
             ELSE IF u.role \notin RecognizedRoles THEN InvalidRoleMsg
             ELSE IF rows = {} THEN NoProfileMsg
             ELSE Null,
   loading |-> FALSE]

\* the mount check and the event have both run to their end
BothFetched == tasks = <<>> /\ nOps = 1 /\ user # Null

\* C17: when the mount-time session check and a SIGNED_IN event both fetch
\* the profile for the same session and the tables do not change, the
\* snapshot (user, profile, error, loading) after both fetches have resolved
\* is the same in every interleaving and is that of a single fetch.
C17_DuplicateFetchHarmless ==
  BothFetched =>
    [user |-> user, profile |-> profile, error |-> error, loading |-> loading]
      = SingleFetchSnapshot(user)

C17_Witness ==
  /\ BothFetched
  /\ user = [id |-> "U1", role |-> "faculty"]
  /\ profile # Null /\ profile.name = "Ravi" /\ error = Null /\ ~loading

\* no remote operation occurs twice among the calls of one invocation
NoRepeat(calls) ==
  \A j, k \in DOMAIN calls : j # k => calls[j].op # calls[k].op
\* the invocations of the mount check in flight
MountChecks(ts) == {j \in DOMAIN ts : ts[j].kind = "init"}
\* a remote call of invocation i returns a failure
FailureReturns(i) ==
  CASE tasks[i].pc = "getSession" -> \E su \in SessionUsers : GetSessionReturns(i, TRUE, su)
    [] tasks[i].pc = "query"      -> FetchReturns(i, TRUE)
    [] tasks[i].pc = "signUp"     -> \E h \in BOOLEAN, id \in NewIds :
                                       SignUpReturns(i, TRUE, h, id)
    [] tasks[i].pc = "insert"     -> InsertReturns(i, TRUE)
    [] tasks[i].pc = "signIn"     -> SignInReturns(i, TRUE)
    [] tasks[i].pc = "signOut"    -> SignOutReturns(i, TRUE)
    [] OTHER                      -> FALSE

\* C18: no remote call is re-issued automatically: the mount check issues
\* getSession once, the mount check and each SIGNED_IN event issue at most
\* one table query each, and each auth action issues each of its remote
\* calls at most once, whether the call succeeds or fails.
C18_NoRetry ==
  [][/\ \A i \in DOMAIN tasks' : NoRepeat(tasks'[i].calls) /\ Len(tasks'[i].calls) <= 2
     /\ NoRepeat(settled'.calls)
     /\ Cardinality(MountChecks(tasks')) <= Cardinality(MountChecks(tasks))
     /\ \A i \in MountChecks(tasks') :
          SelectSeq(tasks'[i].calls, LAMBDA c : c.op = "getSession")
            = <<Call("getSession", "", "")>>
     /\ NQueries(tasks') <= NQueries(tasks) + 1
     /\ Len(tasks') >= Len(tasks) => \A i \in DOMAIN tasks : ~FailureReturns(i)]_vars

\* a table query and an insert have both failed and every invocation is over
C18_Witness ==
  /\ tasks = <<>>
  /\ error = QueryErrMsg
  /\ settled.kind = "signUp" /\ settled.status = "rejected"
  /\ settled.calls = <<AuthSignUpCall, Call("insert", "parents", "U2")>>

\* what the fetch of invocation t writes when its query returns
WrittenBy(t, fail) ==
  LET rows == SelectEq(RoleTable[t.au.role], t.au.id) IN
  IF fail THEN [error |-> QueryErrMsg, profile |-> Null]
  ELSE IF rows = {} THEN [error |-> NoProfileMsg, profile |-> Null]
  ELSE [error |-> Null, profile |-> ExpectedProfile(t.au, CHOOSE r \in rows : TRUE)]

\* C19: when profile fetches overlap, for sessions that may differ, each
\* fetch that resolves writes its own profile and error wherever it stands
\* in the order the fetches were started, so after both have resolved the
\* profile and error are those of the fetch that resolved last; user is
\* written when a fetch is started and not when it resolves, so it is the
\* user of the session taken up last.
C19_LastResolvedWins ==
  [][/\ \A i \in DOMAIN tasks, fail \in BOOLEAN :
          FetchReturns(i, fail)
            => /\ profile' = WrittenBy(tasks[i], fail).profile
               /\ error' = WrittenBy(tasks[i], fail).error
               /\ user' = user
     /\ \A su \in Users : FetchStartedFor(su) => user' = su]_vars

\* the fetch for U1 was started first and resolved last: the profile is
\* U1's while user is U2, whose fetch was started last
C19_Witness ==
  /\ tasks = <<>>
  /\ user = [id |-> "U2", role |-> "parent"]
  /\ profile # Null /\ profile.id = "U1"
  /\ error = Null /\ ~loading

\* C20: fetchUserProfile never rejects to the Synchronizer: when the table
\* query fails with an error other than not-found, the fetch returns
\* normally with error = the failure's message and profile = null, and the
\* code after the awaited fetch in the mount check or the event handler
\* runs: loading becomes false and the invocation ends, nothing rejected.
C20_FetchNeverRejects ==
  [][\A i \in DOMAIN tasks :
       FetchReturns(i, TRUE)
         => /\ error' = QueryErrMsg
            /\ profile' = Null
            /\ ~loading'
            /\ tasks' = Remove(i)
            /\ settled' = settled]_vars

\* the mount check's query failed: the session's user is kept, the failure
\* is in error and the mount check has cleared loading
C20_Witness ==
  /\ nOps = 0 /\ tasks = <<>> /\ mounted
  /\ user # Null /\ profile = Null /\ error = QueryErrMsg /\ ~loading

\* the remote call of invocation i returns a failure, and the message of
\* that failure
ActionFailure(i) ==
  CASE tasks[i].pc = "signUp"  -> \E h \in BOOLEAN, id \in NewIds : SignUpReturns(i, TRUE, h, id)
    [] tasks[i].pc = "insert"  ->
         \/ InsertReturns(i, TRUE)
         \/ /\ InsertReturns(i, FALSE)
            /\ SelectEq(LastCall(tasks[i]).table, LastCall(tasks[i]).id) # {}
    [] tasks[i].pc = "signIn"  -> SignInReturns(i, TRUE)
    [] tasks[i].pc = "signOut" -> SignOutReturns(i, TRUE)
    [] OTHER                   -> FALSE
FailureMessage(i) ==
  CASE tasks[i].pc = "signUp"  -> SignUpErrMsg
    [] tasks[i].pc = "insert"  -> InsertErrMsg
    [] tasks[i].pc = "signIn"  -> SignInErrMsg
    [] tasks[i].pc = "signOut" -> SignOutErrMsg
    [] OTHER                   -> Null

\* C21: when signUp, signIn or signOut fails, the action sets the shared
\* error to the failure's message before it settles; signUp and signIn
\* clear error to null when they start.
C21_ActionErrorField ==
  [][/\ \A i \in DOMAIN tasks :
          ActionFailure(i)
            => /\ error' = FailureMessage(i)
               /\ settled'.kind = tasks[i].kind
               /\ tasks' = Remove(i)
     /\ (nOps' # nOps /\ ((\E r \in SignUpRoles : SignUpCalled(r)) \/ SignInCalled))
          => error' = Null]_vars

\* a failed signIn has settled and left its message in error
C21_Witness ==
  /\ settled.kind = "signIn" /\ settled.status = "rejected"
  /\ error = SignInErrMsg /\ ~loading /\ tasks = <<>>
  /\ user # Null /\ profile = Null

\* the sign-up that settled last created the identity au and failed to
\* insert its row, and the role table holds no row for it
OrphanedIdentity(au) ==
  /\ settled.kind = "signUp" /\ settled.status = "rejected"
  /\ settled.err = InsertErrMsg
  /\ au.role \in RecognizedRoles
  /\ settled.calls = <<AuthSignUpCall, Call("insert", RoleTable[au.role], au.id)>>
  /\ SelectEq(RoleTable[au.role], au.id) = {}

\* C22: sign-up has no compensating rollback: when the insert fails after
\* identity creation succeeded, signUp ends without a further remote call
\* and without a row written; a later SIGNED_IN event for that identity
\* ends with error = 'No profile found. Please contact admin.',
\* profile = null and the Route Gate rendering the login form.
C22_OrphanedIdentity ==
  [][\A i \in DOMAIN tasks :
       /\ (tasks[i].pc = "insert" /\ InsertReturns(i, TRUE))
            => /\ tables' = tables
               /\ tasks' = Remove(i)
               /\ settled'.calls = tasks[i].calls
               /\ settled'.status = "rejected"
       /\ (/\ tasks[i].kind = "event"
           /\ OrphanedIdentity(tasks[i].au)
           /\ FetchReturns(i, FALSE))
            => /\ error' = NoProfileMsg
               /\ profile' = Null
               /\ gate' = "login"]_vars

\* the identity U2 was created as a parent, its insert failed, and the
\* SIGNED_IN event for it has been handled to its end
C22_Witness ==
  /\ OrphanedIdentity([id |-> "U2", role |-> "parent"])
  /\ user = [id |-> "U2", role |-> "parent"]
  /\ error = NoProfileMsg /\ profile = Null /\ ~loading
  /\ gate = "login" /\ tasks = <<>> /\ nOps = 2

\* an insert of the signup invocation i returns an error
CtxInsertFails(i) ==
  /\ tasks[i].kind = "signup" /\ tasks[i].pc = "insert"
  /\ \/ CtxInsertReturns(i, TRUE)
     \/ /\ CtxInsertReturns(i, FALSE)
        /\ CtxSelectEq(LastCall(tasks[i]).table, LastCall(tasks[i]).id) # {}

\* C23: in the context/AuthContext.tsx provider, when identity creation
\* succeeded and one of signup's inserts (faculty; students then users;
\* parents then users) returns an error, signup rejects with that error and
\* does not report 'Account created successfully!'.
C23_CtxSignupSurfacesInsertError ==
  [][\A i \in DOMAIN tasks :
       CtxInsertFails(i)
         => /\ tasks' = Remove(i)
            /\ settled'.kind = "signup"
            /\ settled'.status = "rejected"
            /\ settled'.err = InsertErrMsg
            /\ settled'.toast # SuccessToast]_vars

\* the order of lookup
CtxLookupOrder == <<"faculty", "users", "parents">>
\* the queries a fetch for id has issued are the first n of the order
CtxQueriesInOrder(t) ==
  /\ Len(t.calls) \in 1..3
  /\ \A k \in DOMAIN t.calls : t.calls[k] = Call("select", CtxLookupOrder[k], t.au.id)
  /\ t.pc = CtxLookupOrder[Len(t.calls)]
\* the row of table tn for id, as the user it becomes
CtxFirstRowUser(tn, row) ==
  IF tn = "faculty" THEN [id |-> row.id, name |-> row.name, role |-> "faculty"]
  ELSE IF tn = "parents" THEN [id |-> row.id, name |-> row.name, role |-> "parent"]
  ELSE row

\* C30: in the context/AuthContext.tsx provider fetchUserProfile looks the
\* user id up in faculty, users, parents in this order and stops at the
\* first table that returns a row: users is queried only if faculty
\* returned none, parents only if both returned none; user is set to the
\* first row found (role forced to 'faculty' or 'parent' for those tables)
\* and is left unchanged if no table returns a row.
C30_CtxLookupOrder ==
  [][\A i \in DOMAIN tasks : \A fail \in BOOLEAN :
       (tasks[i].kind = "fetch" /\ CtxFetchReturns(i, fail))
         => LET t == tasks[i]
                rows == {r \in tables[t.pc] : r.id = t.au.id}
            IN /\ CtxQueriesInOrder(t)
               /\ (~fail /\ rows # {})
                    => /\ tasks' = Remove(i)
                       /\ \E r \in rows : user' = CtxFirstRowUser(t.pc, r)
               /\ (fail \/ rows = {})
                    => /\ user' = user
                       /\ IF t.pc = "parents"
                          THEN tasks' = Remove(i)
                          ELSE /\ Len(tasks') = Len(tasks)
                               /\ tasks'[i].calls =
                                    Append(t.calls, Call("select", CtxLookupOrder[Len(t.calls) + 1], t.au.id))
                               /\ CtxQueriesInOrder(tasks'[i])]_vars

\* faculty has no row for U2 while users and parents both have one: the
\* user is the users row
C30_Witness ==
  /\ CtxSelectEq("faculty", "U2") = {}
  /\ CtxSelectEq("parents", "U2") # {}
  /\ user = CtxRow("users", "U2")
  /\ tasks = <<>> /\ nOps = 1

\* C24: in every reachable snapshot the profile belongs to the current
\* user: profile non-null implies user non-null and profile.id = user.id.
C24_ProfileBelongsToUser ==
  profile # Null => (user # Null /\ profile.id = user.id)

\* C25: in every reachable snapshot a non-null profile has a role in
\* {faculty, student, parent}; it is written by a fetch whose session has
\* that role claim and whose query read the table of that role, of which it
\* is a row; hence the Dashboard Router never renders 'Unknown Role'.
C25_ProfileRoleRecognized ==
  [][/\ profile' # Null =>
          /\ profile'.role \in RecognizedRoles
          /\ \E r \in tables'[RoleTable[profile'.role]] :
               profile' = ExpectedProfile([id |-> r.id, role |-> profile'.role], r)
     /\ (profile' # profile /\ profile' # Null) =>
          \E i \in DOMAIN tasks :
            /\ tasks[i].pc = "query"
            /\ tasks' = Remove(i)
            /\ tasks[i].au.role = profile'.role
            /\ LastCall(tasks[i]) = Call("select", RoleTable[profile'.role], profile'.id)
     /\ dashboard' # "Unknown Role"
     /\ DashboardRouter' # "Unknown Role"]_vars

C25_Witness ==
  /\ profile # Null /\ profile.role = "student" /\ profile.name = "Asha"
  /\ user = [id |-> "U1", role |-> "student"]
  /\ dashboard = "StudentDashboard"

\* C26: in every reachable snapshot error = 'No profile found. Please
\* contact admin.' implies profile = null; hence the Route Gate never
\* renders its profile-not-found message: the unauthenticated state takes
\* priority.
C26_NotFoundStateUnreachable ==
  /\ error = NoProfileMsg => profile = Null
  /\ gate # "profile-not-found"
  /\ ProtectedRoute # "profile-not-found"

\* the not-found message is set, the user is known, and the gate shows the
\* login form
C26_Witness ==
  /\ error = NoProfileMsg /\ profile = Null /\ user # Null /\ ~loading
  /\ gate = "login" /\ settled = NoneSettled

\* C27: from the initial snapshot (loading = true, user = profile = error =
\* null), if the provider stays mounted and every remote call eventually
\* returns, loading eventually becomes false, whatever getSession returns
\* and whatever the outcome of the profile fetch.
C27_LoadingEnds ==
  (loading /\ user = Null /\ profile = Null /\ error = Null /\ nOps = 0
     /\ \E i \in DOMAIN tasks : tasks[i].pc = "getSession")
    ~> (~loading /\ tasks = <<>>)

\* the mount check has ended after a failed table query
C27_Witness ==
  ~loading /\ tasks = <<>> /\ mounted /\ error = QueryErrMsg /\ user # Null /\ nOps = 0

\* an event the handler has no branch for
OtherEvent(ev, su) ==
  ~(ev = "SIGNED_IN" /\ su # Null /\ su # Undefined) /\ ev # "SIGNED_OUT"

\* C28: an auth event that is neither SIGNED_IN with a session user nor
\* SIGNED_OUT leaves user, profile and error unchanged and starts no
\* profile fetch; while mounted its only effect is loading := false, also
\* when an auth action is still in flight.
C28_OtherEventsOnlyClearLoading ==
  [][\A ev \in EventKinds, su \in SessionUsers :
       (OtherEvent(ev, su) /\ AuthStateChange(ev, su))
         => /\ UNCHANGED <<user, profile, error, tasks, settled, tables>>
            /\ mounted => ~loading'
            /\ ~mounted => loading' = loading]_vars

\* signOut is in flight and the mount check still awaits its query, with
\* loading already cleared and user, profile, error untouched
C28_Witness ==
  /\ Len(tasks) = 2 /\ nOps = 2 /\ mounted
  /\ tasks[1].kind = "init" /\ tasks[1].pc = "query"
  /\ tasks[2].kind = "signOut"
  /\ ~loading /\ user = tasks[1].au /\ profile = Null /\ error = Null

\* signUp has resolved after inserting its row, the SIGNED_IN event for the
\* new identity was handled while it was in flight, and the event's fetch
\* has resolved
SignedUpAndFetched ==
  /\ settled.kind = "signUp" /\ settled.status = "resolved"
  /\ Len(settled.calls) = 2
  /\ nOps = 2 /\ tasks = <<>>

\* C29: if the auth service emits SIGNED_IN for the newly created identity
\* during sign-up, then in every interleaving of that event's profile fetch
\* with the sign-up's insert, once signUp has resolved successfully and the
\* fetch has resolved the snapshot is authenticated: profile is the new
\* row, error = null and isAuthenticated = true.
C29_SignUpThenAuthenticated ==
  SignedUpAndFetched =>
    /\ user # Null /\ user.id = settled.calls[2].id
    /\ profile = ExpectedProfile(user, InsertData(user.id))
    /\ error = Null
    /\ isAuthenticated
====
